---- MODULE Spec2Model ----
(***************************************************************************)
(* OveloAI chatbot backend: the session store and the conversation         *)
(* controller of app/main.py, with the answer generator (app/ai_brain.py)  *)
(* and the notification sender (app/lead_capture.py) it calls.             *)
(*                                                                         *)
(* Text is a sequence of fragments; a user message is a sequence of        *)
(* one-character fragments, so that `in`, lower() and f-string embedding   *)
(* are computed as Python computes them.  Python's None is the string      *)
(* "None" in awaiting_action and requires_action; an optional session_id   *)
(* is a sequence of length 0 (None) or 1.  Confidence is in hundredths.    *)
(***************************************************************************)
EXTENDS Integers, Sequences, FiniteSets, TLC

VARIABLES
    sessions,       \* main.py:27  sessions: Dict[str, dict]
    running,        \* the chat_endpoint coroutine the event loop is executing
    last,           \* the outcome of the last finished /chat call
    notifications,  \* the calls of send_lead_email made so far
    stats,          \* per session: /chat calls started, calls ended by a fault
    nCalls,         \* /chat calls started so far
    nUuid,          \* uuid4() values drawn so far
    nFallback,      \* calls of get_ai_response so far
    kbBuilt,        \* os.path.exists(settings.FAISS_DB_PATH)
    smtpConfigured, \* all([SMTP_SERVER, SMTP_USERNAME, SMTP_PASSWORD, RECEIVER_EMAIL])
    probe,          \* the response to the last GET request
    nGets           \* GET requests served so far

vars == <<sessions, running, last, notifications, stats, nCalls, nUuid,
          nFallback, kbBuilt, smtpConfigured, probe, nGets>>

---------------------------------------------------------------------------
(* Bounds of the model *)

MaxCalls == 4
MaxFallback == 1
\* the specification with the GET endpoints: /chat calls and GET requests
MaxProbeCalls == 2
MaxGets == 2

---------------------------------------------------------------------------
(* Text *)

None == "None"

UpperCase == <<"A","B","C","D","E","F","G","H","I","J","K","L","M",
               "N","O","P","Q","R","S","T","U","V","W","X","Y","Z">>
LowerCase == <<"a","b","c","d","e","f","g","h","i","j","k","l","m",
               "n","o","p","q","r","s","t","u","v","w","x","y","z">>

LowerChar(c) ==
    IF \E i \in 1..Len(UpperCase) : UpperCase[i] = c
    THEN LowerCase[CHOOSE i \in 1..Len(UpperCase) : UpperCase[i] = c]
    ELSE c

\* str.lower()
Lower(s) == [i \in 1..Len(s) |-> LowerChar(s[i])]

\* `c in s` for a one-character c
CharIn(c, s) == \E i \in 1..Len(s) : s[i] = c

\* `p in s` for a phrase p
IsSubstr(p, s) ==
    \E i \in 0..(Len(s) - Len(p)) : SubSeq(s, i + 1, i + Len(p)) = p

\* config.py: LEAD_CAPTURE_PHRASES
LEAD_CAPTURE_PHRASES ==
    { <<"p","r","i","c","e">>,
      <<"q","u","o","t","e">>,
      <<"c","o","s","t">>,
      <<"c","o","n","t","a","c","t">>,
      <<"t","a","l","k"," ","t","o">>,
      <<"m","e","e","t","i","n","g">>,
      <<"s","c","h","e","d","u","l","e">> }

\* detect_lead_intent without lower(): a case-sensitive match
detect_lead_intent_cased(message) ==
    \E phrase \in LEAD_CAPTURE_PHRASES : IsSubstr(phrase, message)

\* main.py: detect_lead_intent
detect_lead_intent(message) ==
    \E phrase \in LEAD_CAPTURE_PHRASES : IsSubstr(phrase, Lower(message))

\* the check of main.py:84 with `or` for `and`
LooksLikeEmailEither(message) == CharIn("@", message) \/ CharIn(".", message)

\* main.py:84  "@" in message and "." in message
LooksLikeEmail(message) == CharIn("@", message) /\ CharIn(".", message)

---------------------------------------------------------------------------
(* Inputs *)

MsgEmpty  == <<>>                             \* no trigger, no "@", no "."
MsgPrice  == <<"P","r","i","c","e",".">>       \* trigger in capitals, "." only
MsgEmail  == <<"a","@","b",".","c">>           \* no trigger, "@" and "."
MsgCostAt == <<"c","o","s","t","@","b">>       \* trigger, "@" only

Messages == {MsgEmpty, MsgPrice, MsgEmail, MsgCostAt}

\* the identifiers clients make up, and the values uuid4() returns, in order
ClientIds == {"s1"}
UuidPool == <<"uuid-1">>

Uuid(n) == UuidPool[n]

\* what rag_chain.invoke may return
LlmTexts == { <<"We build automation.">> }

\* ai_brain.py:70
greetings == { <<"Hello!">>, <<"Hi there!">>, <<"Hey!">>, <<"Greetings!">> }

---------------------------------------------------------------------------
(* Fixed texts and confidences *)

NamePrompt  == <<"Awesome! Let's get you started. What's your name?">>
RetryPrompt == <<"That doesn't look like a valid email. Can you please try again?">>
KbMissingText ==
    <<"Error: Knowledge base not found. Please ensure your FAISS vector database has been created.">>

NameAck(message) ==
    <<"Thanks ">> \o message \o <<"! What's your email address?">>
EmailAck(message) ==
    <<"Perfect! We'll contact you at ">> \o message \o <<" within 24 hours! ", "U+1F389">>

ConfNameStep   == 90
ConfEmailOk    == 100
ConfEmailRetry == 50
ConfStart      == 90
ConfAnswer     == 95
ConfKbMissing  == 0

---------------------------------------------------------------------------
(* Session store *)

EmptyDict == [k \in {} |-> <<>>]

DictSet(d, k, v) == [x \in (DOMAIN d) \cup {k} |-> IF x = k THEN v ELSE d[x]]

NewSession ==
    [message_history |-> <<>>, awaiting_action |-> None, user_data |-> EmptyDict]

\* get_session without its membership test: the session is made anew
get_session_reset(store, session_id) ==
    [x \in (DOMAIN store) \cup {session_id} |->
        IF x = session_id THEN NewSession ELSE store[x]]

\* main.py: get_session, as the store after the call
get_session(store, session_id) ==
    IF session_id \notin DOMAIN store
    THEN [x \in (DOMAIN store) \cup {session_id} |->
             IF x = session_id THEN NewSession ELSE store[x]]
    ELSE store

Message(role, content) == [role |-> role, content |-> content]

\* session["message_history"].append(...)
AppendMessage(store, session_id, role, content) ==
    [store EXCEPT ![session_id].message_history =
        Append(@, Message(role, content))]

NewStats == [calls |-> 0, faults |-> 0]

CountCall(st, session_id) ==
    [x \in (DOMAIN st) \cup {session_id} |->
        IF x = session_id
        THEN [calls |-> (IF x \in DOMAIN st THEN st[x].calls ELSE 0) + 1,
              faults |-> IF x \in DOMAIN st THEN st[x].faults ELSE 0]
        ELSE st[x]]

CountFault(st, session_id) ==
    [st EXCEPT ![session_id].faults = @ + 1]

---------------------------------------------------------------------------
(* The conversation controller: POST /chat *)

Idle == [pc |-> "idle"]

NoCall == [seq |-> 0, status |-> "none"]

\* main.py:61  request_data.session_id or str(uuid.uuid4())
IsAbsent(sidOpt) == sidOpt = <<>> \/ sidOpt[1] = ""

ResolveSessionId(sidOpt, n) ==
    IF IsAbsent(sidOpt) THEN Uuid(n + 1) ELSE sidOpt[1]

\* the session identifiers a client can send
SessionIdInputs ==
    {<<>>, <<"">>} \cup {<<id>> : id \in ClientIds \cup {Uuid(n) : n \in 1..nUuid}}

\* main.py:62-69  get_session, then the user's message is stored
Entered(store, session_id, message) ==
    AppendMessage(get_session(store, session_id), session_id, "user", message)

\* the chain with the intent check moved to the front
DecideIntentFirst(session, message) ==
    IF detect_lead_intent(message)
    THEN [branch |-> "start", consulted |-> {"detect_lead_intent"}]
    ELSE IF session.awaiting_action = "get_name"
    THEN [branch |-> "name", consulted |-> {"detect_lead_intent"}]
    ELSE IF session.awaiting_action = "get_email"
    THEN [branch |-> IF LooksLikeEmail(message) THEN "email_ok" ELSE "email_retry",
          consulted |-> {"detect_lead_intent"}]
    ELSE [branch |-> "fallback", consulted |-> {"detect_lead_intent"}]

\* main.py:77-102  the if / elif chain, first match wins: the branch taken
\* and the functions consulted on the way to it
Decide(session, message) ==
    IF session.awaiting_action = "get_name"
    THEN [branch |-> "name", consulted |-> {}]
    ELSE IF session.awaiting_action = "get_email"
    THEN [branch |-> IF LooksLikeEmail(message) THEN "email_ok" ELSE "email_retry",
          consulted |-> {}]
    ELSE IF detect_lead_intent(message)
    THEN [branch |-> "start", consulted |-> {"detect_lead_intent"}]
    ELSE [branch |-> "fallback", consulted |-> {"detect_lead_intent"}]

Branch(session, message) == Decide(session, message).branch

Consulted(session, message) == Decide(session, message).consulted

\* the name step with a misspelt next state
NameStepStoreTypo(store, session_id, message) ==
    [store EXCEPT ![session_id].user_data = DictSet(@, "name", message),
                  ![session_id].awaiting_action = "get_mail"]

\* the name step storing the name the way the intent detector reads it
NameStepStoreLower(store, session_id, message) ==
    [store EXCEPT ![session_id].user_data = DictSet(@, "name", Lower(message)),
                  ![session_id].awaiting_action = "get_email"]

\* the name step on a user_data dict that all sessions share
NameStepStoreShared(store, session_id, message) ==
    [x \in DOMAIN store |->
        IF x = session_id
        THEN [store[x] EXCEPT !.user_data = DictSet(@, "name", message),
                              !.awaiting_action = "get_email"]
        ELSE [store[x] EXCEPT !.user_data = DictSet(@, "name", message)]]

\* main.py:78-79
NameStepStore(store, session_id, message) ==
    [store EXCEPT ![session_id].user_data = DictSet(@, "name", message),
                  ![session_id].awaiting_action = "get_email"]

\* the email step without line 86
EmailOkStoreNoReset(store, session_id, message) ==
    [store EXCEPT ![session_id].user_data = DictSet(@, "email", message)]

\* main.py:85-86
EmailOkStore(store, session_id, message) ==
    [store EXCEPT ![session_id].user_data = DictSet(@, "email", message),
                  ![session_id].awaiting_action = None]

\* the retry branch keeping the rejected text as the email
EmailRetryStoreWrites(store, session_id, message) ==
    [store EXCEPT ![session_id].user_data = DictSet(@, "email", message),
                  ![session_id].awaiting_action = "get_email"]

\* the retry branch giving the capture up
EmailRetryStoreGivesUp(store, session_id, message) ==
    [store EXCEPT ![session_id].awaiting_action = None]

\* main.py:92
EmailRetryStore(store, session_id, message) ==
    [store EXCEPT ![session_id].awaiting_action = "get_email"]

\* the start branch asking for the email at once
StartStoreSkipsName(store, session_id, message) ==
    [store EXCEPT ![session_id].awaiting_action = "get_email"]

\* main.py:97
StartStore(store, session_id, message) ==
    [store EXCEPT ![session_id].awaiting_action = "get_name"]

\* lead_capture.py:14-58  what a call of send_lead_email can come to
SendOutcomes == IF smtpConfigured THEN {"sent", "failed"} ELSE {"skipped"}

\* send_lead_email without its try / except: a failed delivery raises
SendRaisesOnFailure(outcome) == outcome = "failed"

\* lead_capture.py:50-58  the exception of a failed delivery is caught and
\* printed, and the early return of line 16 raises nothing
SendRaises(outcome) == FALSE

\* send_lead_email called before the email is stored
LeadArgsBeforeStore(before, after, session_id) ==
    [lead_data |-> before[session_id].user_data,
     message_history |-> before[session_id].message_history]

\* main.py:88  send_lead_email(session["user_data"], session["message_history"])
\* `before` is the store at line 84, `after` the store at line 88
LeadArgs(before, after, session_id) ==
    [lead_data |-> after[session_id].user_data,
     message_history |-> after[session_id].message_history]

\* a handler that awaited the answer generator would let the loop go on
CanDispatchAlways == TRUE

\* the event loop runs one coroutine at a time and chat_endpoint never awaits
CanDispatch == running = Idle

\* a request can be taken: the loop is free, and the model's bounds allow it
Accept(sidOpt) ==
    /\ CanDispatch
    /\ nCalls < MaxCalls
    /\ IsAbsent(sidOpt) => nUuid < Len(UuidPool)

\* main.py:61-69  bookkeeping of a handler that has started
Started(sidOpt, session_id) ==
    /\ nCalls' = nCalls + 1
    /\ nUuid' = IF IsAbsent(sidOpt) THEN nUuid + 1 ELSE nUuid

\* main.py:107-119  the assistant's message is stored and the response returned
Return(store, session_id, message, response, confidence, requires_action, called) ==
    /\ sessions' = AppendMessage(store, session_id, "assistant", response)
    /\ last' = [seq |-> last.seq + 1, status |-> "ok",
                session_id |-> session_id, message |-> message,
                response |-> response, confidence |-> confidence,
                requires_action |-> requires_action, called |-> called]

\* a handler that caught the exception and answered with an apology
RaiseAnswered(store, session_id, message, called) ==
    /\ sessions' = AppendMessage(store, session_id, "assistant",
                                 <<"Sorry, something went wrong.">>)
    /\ last' = [seq |-> last.seq + 1, status |-> "fault",
                session_id |-> session_id, message |-> message,
                called |-> called]

\* an exception leaves chat_endpoint: nothing after the raising call runs
Raise(store, session_id, message, called) ==
    /\ sessions' = store
    /\ last' = [seq |-> last.seq + 1, status |-> "fault",
                session_id |-> session_id, message |-> message,
                called |-> called]

\* main.py:77-82
ChatNameStep(sidOpt, message) ==
    LET sid == ResolveSessionId(sidOpt, nUuid)
        s1 == Entered(sessions, sid, message)
    IN  /\ Accept(sidOpt)
        /\ Branch(s1[sid], message) = "name"
        /\ Started(sidOpt, sid)
        /\ stats' = CountCall(stats, sid)
        /\ Return(NameStepStore(s1, sid, message), sid, message,
                  NameAck(message), ConfNameStep, "get_email",
                  Consulted(s1[sid], message))
        /\ UNCHANGED <<running, notifications, nFallback, kbBuilt, smtpConfigured,
                   probe, nGets>>

\* main.py:83-89
ChatEmailStep(sidOpt, message) ==
    LET sid == ResolveSessionId(sidOpt, nUuid)
        s1 == Entered(sessions, sid, message)
        s2 == EmailOkStore(s1, sid, message)
    IN  /\ Accept(sidOpt)
        /\ Branch(s1[sid], message) = "email_ok"
        /\ Started(sidOpt, sid)
        /\ stats' = CountCall(stats, sid)
        /\ \E outcome \in SendOutcomes :
              /\ notifications' = Append(notifications,
                    [args |-> LeadArgs(s1, s2, sid), outcome |-> outcome])
              /\ IF SendRaises(outcome)
                 THEN Raise(s2, sid, message,
                            Consulted(s1[sid], message) \cup {"send_lead_email"})
                 ELSE Return(s2, sid, message, EmailAck(message), ConfEmailOk,
                             None,
                             Consulted(s1[sid], message) \cup {"send_lead_email"})
        /\ UNCHANGED <<running, nFallback, kbBuilt, smtpConfigured,
                   probe, nGets>>

\* main.py:90-94
ChatEmailRetry(sidOpt, message) ==
    LET sid == ResolveSessionId(sidOpt, nUuid)
        s1 == Entered(sessions, sid, message)
    IN  /\ Accept(sidOpt)
        /\ Branch(s1[sid], message) = "email_retry"
        /\ Started(sidOpt, sid)
        /\ stats' = CountCall(stats, sid)
        /\ Return(EmailRetryStore(s1, sid, message), sid, message,
                  RetryPrompt, ConfEmailRetry, "get_email",
                  Consulted(s1[sid], message))
        /\ UNCHANGED <<running, notifications, nFallback, kbBuilt, smtpConfigured,
                   probe, nGets>>

\* main.py:96-100
ChatStartCapture(sidOpt, message) ==
    LET sid == ResolveSessionId(sidOpt, nUuid)
        s1 == Entered(sessions, sid, message)
    IN  /\ Accept(sidOpt)
        /\ Branch(s1[sid], message) = "start"
        /\ Started(sidOpt, sid)
        /\ stats' = CountCall(stats, sid)
        /\ Return(StartStore(s1, sid, message), sid, message,
                  NamePrompt, ConfStart, "get_name",
                  Consulted(s1[sid], message))
        /\ UNCHANGED <<running, notifications, nFallback, kbBuilt, smtpConfigured,
                   probe, nGets>>

\* main.py:102-103  the handler enters get_ai_response
ChatFallbackCall(sidOpt, message) ==
    LET sid == ResolveSessionId(sidOpt, nUuid)
        s1 == Entered(sessions, sid, message)
    IN  /\ Accept(sidOpt)
        /\ Branch(s1[sid], message) = "fallback"
        /\ nFallback < MaxFallback
        /\ nFallback' = nFallback + 1
        /\ Started(sidOpt, sid)
        /\ stats' = CountCall(stats, sid)
        /\ sessions' = s1
        /\ running' = [pc |-> "get_ai_response", session_id |-> sid,
                       message |-> message,
                       called |-> Consulted(s1[sid], message) \cup {"get_ai_response"}]
        /\ UNCHANGED <<last, notifications, kbBuilt, smtpConfigured,
                   probe, nGets>>

InAi == running.pc = "get_ai_response"

\* ai_brain.py:25  loading the embedding model raises
AiEmbeddingsFault ==
    /\ InAi
    /\ Raise(sessions, running.session_id, running.message,
             running.called \cup {"HuggingFaceEmbeddings"})
    /\ stats' = CountFault(stats, running.session_id)
    /\ running' = Idle
    /\ UNCHANGED <<notifications, nCalls, nUuid, nFallback, kbBuilt, smtpConfigured,
                   probe, nGets>>

\* ai_brain.py:27-28, main.py:104-119  no vector store on disk
AiKbMissing ==
    /\ InAi
    /\ ~kbBuilt
    /\ Return(sessions, running.session_id, running.message,
              KbMissingText, ConfKbMissing, None,
              running.called \cup {"HuggingFaceEmbeddings"})
    /\ running' = Idle
    /\ UNCHANGED <<notifications, stats, nCalls, nUuid, nFallback, kbBuilt, smtpConfigured,
                   probe, nGets>>

\* ai_brain.py:30-34  FAISS.load_local raises
AiLoadFault ==
    /\ InAi
    /\ kbBuilt
    /\ Raise(sessions, running.session_id, running.message,
             running.called \cup {"HuggingFaceEmbeddings", "FAISS.load_local"})
    /\ stats' = CountFault(stats, running.session_id)
    /\ running' = Idle
    /\ UNCHANGED <<notifications, nCalls, nUuid, nFallback, kbBuilt, smtpConfigured,
                   probe, nGets>>

\* ai_brain.py:67  the retriever or the language model raises
AiInvokeFault ==
    /\ InAi
    /\ kbBuilt
    /\ Raise(sessions, running.session_id, running.message,
             running.called \cup {"HuggingFaceEmbeddings", "FAISS.load_local",
                                  "rag_chain.invoke"})
    /\ stats' = CountFault(stats, running.session_id)
    /\ running' = Idle
    /\ UNCHANGED <<notifications, nCalls, nUuid, nFallback, kbBuilt, smtpConfigured,
                   probe, nGets>>

\* ai_brain.py:67-76, main.py:104-119
AiAnswer(greeting, text) ==
    /\ InAi
    /\ kbBuilt
    /\ Return(sessions, running.session_id, running.message,
              greeting \o <<" ">> \o text, ConfAnswer, None,
              running.called \cup {"HuggingFaceEmbeddings", "FAISS.load_local",
                                   "rag_chain.invoke"})
    /\ running' = Idle
    /\ UNCHANGED <<notifications, stats, nCalls, nUuid, nFallback, kbBuilt, smtpConfigured,
                   probe, nGets>>

\* rag_system_faiss.py: the index is built and saved to FAISS_DB_PATH
BuildKnowledgeBase ==
    /\ ~kbBuilt
    /\ kbBuilt' = TRUE
    /\ UNCHANGED <<sessions, running, last, notifications, stats, nCalls,
                   nUuid, nFallback, smtpConfigured, probe, nGets>>

---------------------------------------------------------------------------

(* The monitoring and debugging endpoints *)

NoProbe == [kind |-> "none"]

\* a count of the sessions that are in the middle of a capture
SessionsActiveInCapture(store) ==
    Cardinality({x \in DOMAIN store : store[x].awaiting_action # None})

\* main.py:128  len(sessions)
SessionsActive(store) == Cardinality(DOMAIN store)

\* main.py:122-129  GET /health
health_check ==
    /\ CanDispatch
    /\ nGets < MaxGets
    /\ nGets' = nGets + 1
    /\ probe' = [kind |-> "health", status_code |-> 200, status |-> "healthy",
                 sessions_active |-> SessionsActive(sessions)]
    /\ UNCHANGED <<sessions, running, last, notifications, stats, nCalls,
                   nUuid, nFallback, kbBuilt, smtpConfigured>>

\* main.py:134-135  the name HTTPException is not bound in main.py (lines 1-12
\* import FastAPI and Request only), so evaluating it raises NameError and
\* the server answers 500
SessionNotFound == [status_code |-> 500, error |-> "NameError"]

\* main.py:131-136  GET /session/{session_id}
get_session_data(session_id) ==
    /\ CanDispatch
    /\ nGets < MaxGets
    /\ nGets' = nGets + 1
    /\ probe' = [kind |-> "session", session_id |-> session_id,
                 response |-> IF session_id \notin DOMAIN sessions
                              THEN SessionNotFound
                              ELSE [status_code |-> 200,
                                    body |-> sessions[session_id]]]
    /\ UNCHANGED <<sessions, running, last, notifications, stats, nCalls,
                   nUuid, nFallback, kbBuilt, smtpConfigured>>

\* the identifiers a client can ask GET /session for
PathIds == ClientIds \cup {UuidPool[n] : n \in 1..Len(UuidPool)}

---------------------------------------------------------------------------

\* main.py:55-119  POST /chat, up to its return or its entry into
\* get_ai_response
chat_endpoint(sidOpt, message) ==
    \/ ChatNameStep(sidOpt, message)
    \/ ChatEmailStep(sidOpt, message)
    \/ ChatEmailRetry(sidOpt, message)
    \/ ChatStartCapture(sidOpt, message)
    \/ ChatFallbackCall(sidOpt, message)

Init ==
    /\ sessions = [x \in {} |-> NewSession]
    /\ running = Idle
    /\ last = NoCall
    /\ notifications = <<>>
    /\ stats = [x \in {} |-> NewStats]
    /\ nCalls = 0
    /\ nUuid = 0
    /\ nFallback = 0
    /\ kbBuilt = FALSE
    /\ smtpConfigured \in BOOLEAN
    /\ probe = NoProbe
    /\ nGets = 0

Next ==
    \/ \E sidOpt \in SessionIdInputs, message \in Messages :
          \/ ChatNameStep(sidOpt, message)
          \/ ChatEmailStep(sidOpt, message)
          \/ ChatEmailRetry(sidOpt, message)
          \/ ChatStartCapture(sidOpt, message)
          \/ ChatFallbackCall(sidOpt, message)
    \/ AiEmbeddingsFault
    \/ AiKbMissing
    \/ AiLoadFault
    \/ AiInvokeFault
    \/ \E greeting \in greetings, text \in LlmTexts : AiAnswer(greeting, text)
    \/ BuildKnowledgeBase

Spec == Init /\ [][Next]_vars

\* the /chat endpoint together with the GET endpoints
NextProbe ==
    \/ \E sidOpt \in SessionIdInputs, message \in Messages :
          /\ nCalls < MaxProbeCalls
          /\ \/ ChatNameStep(sidOpt, message)
             \/ ChatEmailStep(sidOpt, message)
             \/ ChatEmailRetry(sidOpt, message)
             \/ ChatStartCapture(sidOpt, message)
             \/ ChatFallbackCall(sidOpt, message)
    \/ AiEmbeddingsFault
    \/ AiKbMissing
    \/ AiLoadFault
    \/ AiInvokeFault
    \/ \E greeting \in greetings, text \in LlmTexts : AiAnswer(greeting, text)
    \/ BuildKnowledgeBase
    \/ health_check
    \/ \E session_id \in PathIds : get_session_data(session_id)

SpecProbe == Init /\ [][NextProbe]_vars

---------------------------------------------------------------------------
(* Vocabulary of the properties.  A step starts a /chat call when nCalls   *)
(* grows and ends one when last.seq grows; the name, email and start       *)
(* branches do both in one step.                                           *)

CallStarts == nCalls' = nCalls + 1
CallEnds == last'.seq = last.seq + 1
CallStartsAndEnds == CallStarts /\ CallEnds /\ running' = Idle

\* the request of the call a step starts
ReqSid == IF CallEnds THEN last'.session_id ELSE running'.session_id
ReqMsg == IF CallEnds THEN last'.message ELSE running'.message

\* the session a request finds: a fresh one when the identifier is unseen
PreSession(sid) == IF sid \in DOMAIN sessions THEN sessions[sid] ELSE NewSession

\* what the input messages contain, read off their text
HasTrigger(m) == m \in {MsgPrice, MsgCostAt}
HasAt(m) == m \in {MsgEmail, MsgCostAt}
HasDot(m) == m \in {MsgPrice, MsgEmail}

IsPrefix(a, b) == Len(a) <= Len(b) /\ SubSeq(b, 1, Len(a)) = a

---------------------------------------------------------------------------
\* C1: in every reachable state every session's awaiting_action is one of
\* None, "get_name", "get_email".
C1_AwaitingActionDomain ==
    \A sid \in DOMAIN sessions :
        sessions[sid].awaiting_action \in {"None", "get_name", "get_email"}

\* two sessions in the two capture states, after calls that returned
C1_Witness ==
    /\ last.status = "ok"
    /\ \E a, b \in DOMAIN sessions :
          /\ sessions[a].awaiting_action = "get_name"
          /\ sessions[b].awaiting_action = "get_email"

---------------------------------------------------------------------------
\* C3: a call whose message holds "@" and "." on a session awaiting
\* get_email ends in the same step, stores the message as user_data.email,
\* resets awaiting_action to None, returns confidence 1.0 and no
\* requires_action, and calls send_lead_email once; no other step calls it,
\* so the calls of send_lead_email number the successful email steps.
C3_EmailStep ==
    [][ LET emailOk == /\ CallStarts
                       /\ PreSession(ReqSid).awaiting_action = "get_email"
                       /\ HasAt(ReqMsg) /\ HasDot(ReqMsg)
        IN  /\ emailOk =>
                  /\ CallStartsAndEnds
                  /\ last'.status = "ok"
                  /\ "email" \in DOMAIN sessions'[ReqSid].user_data
                  /\ sessions'[ReqSid].user_data["email"] = ReqMsg
                  /\ sessions'[ReqSid].awaiting_action = "None"
                  /\ last'.confidence = 100
                  /\ last'.requires_action = "None"
                  /\ Len(notifications') = Len(notifications) + 1
            /\ ~emailOk => notifications' = notifications
      ]_vars

C3_Witness ==
    /\ last.status = "ok"
    /\ last.message = MsgEmail
    /\ last.confidence = 100
    /\ Len(notifications) = 1
    /\ sessions[last.session_id].user_data["email"] = MsgEmail
    /\ sessions[last.session_id].awaiting_action = "None"

---------------------------------------------------------------------------
\* C4: a call whose message lacks "@" or lacks "." on a session awaiting
\* get_email ends in the same step, leaves awaiting_action at get_email and
\* user_data as it was, calls no send_lead_email, and returns the retry
\* prompt with confidence 0.5 and requires_action get_email.
C4_EmailRetry ==
    [][ ( /\ CallStarts
          /\ PreSession(ReqSid).awaiting_action = "get_email"
          /\ ~(HasAt(ReqMsg) /\ HasDot(ReqMsg)) )
        => /\ CallStartsAndEnds
           /\ last'.status = "ok"
           /\ sessions'[ReqSid].awaiting_action = "get_email"
           /\ sessions'[ReqSid].user_data = sessions[ReqSid].user_data
           /\ notifications' = notifications
           /\ last'.response =
                 <<"That doesn't look like a valid email. Can you please try again?">>
           /\ last'.confidence = 50
           /\ last'.requires_action = "get_email"
      ]_vars

\* a retry after a message with "@" and no ".", on a session that kept
\* only its name
C4_Witness ==
    /\ last.status = "ok"
    /\ last.message = MsgCostAt
    /\ last.response = RetryPrompt
    /\ sessions[last.session_id].awaiting_action = "get_email"
    /\ DOMAIN sessions[last.session_id].user_data = {"name"}

---------------------------------------------------------------------------
\* C5: a call with any text on a session awaiting get_name ends in the same
\* step, stores the text as user_data.name, moves awaiting_action to
\* get_email, embeds the text in the response, and returns confidence 0.9
\* with requires_action get_email.
C5_NameStep ==
    [][ (CallStarts /\ PreSession(ReqSid).awaiting_action = "get_name")
        => /\ CallStartsAndEnds
           /\ last'.status = "ok"
           /\ "name" \in DOMAIN sessions'[ReqSid].user_data
           /\ sessions'[ReqSid].user_data["name"] = ReqMsg
           /\ sessions'[ReqSid].awaiting_action = "get_email"
           /\ last'.response =
                 <<"Thanks ">> \o ReqMsg \o <<"! What's your email address?">>
           /\ last'.confidence = 90
           /\ last'.requires_action = "get_email"
      ]_vars

\* one session named by the empty text, another by a trigger phrase
C5_Witness ==
    \E a, b \in DOMAIN sessions :
        /\ sessions[a].awaiting_action = "get_email"
        /\ sessions[b].awaiting_action = "get_email"
        /\ sessions[a].user_data["name"] = MsgEmpty
        /\ sessions[b].user_data["name"] = MsgPrice
        /\ last.response = NameAck(last.message)

---------------------------------------------------------------------------
\* C6: first match wins.  A call on a session awaiting get_name or get_email
\* consults neither detect_lead_intent nor get_ai_response and never moves
\* the session to get_name, whatever the message; get_ai_response is entered
\* only by a call that found awaiting_action None and a message without a
\* trigger phrase, after detect_lead_intent was consulted.
C6_PriorityOrder ==
    [][ /\ ( CallStarts /\ PreSession(ReqSid).awaiting_action
                              \in {"get_name", "get_email"} )
           => /\ CallStartsAndEnds
              /\ last'.called \cap {"detect_lead_intent", "get_ai_response"} = {}
              /\ sessions'[ReqSid].awaiting_action # "get_name"
        /\ ( CallStarts /\ running' # Idle )
           => /\ running'.pc = "get_ai_response"
              /\ PreSession(ReqSid).awaiting_action = "None"
              /\ ~HasTrigger(ReqMsg)
              /\ "detect_lead_intent" \in running'.called
        /\ ( CallEnds /\ "get_ai_response" \in last'.called )
           => running.pc = "get_ai_response"
      ]_vars

\* a trigger phrase sent while the email is awaited: no detector, no restart
C6_Witness ==
    /\ last.status = "ok"
    /\ HasTrigger(last.message)
    /\ last.response = RetryPrompt
    /\ last.called = {}
    /\ sessions[last.session_id].awaiting_action = "get_email"

---------------------------------------------------------------------------
\* C7: a call whose message contains a trigger phrase, in any letter case,
\* on a session with awaiting_action None (new, or after a finished
\* capture) ends in the same step, sets awaiting_action to get_name, leaves
\* user_data as it was, and returns the name prompt with confidence 0.9 and
\* requires_action get_name.
C7_StartCapture ==
    [][ ( /\ CallStarts
          /\ PreSession(ReqSid).awaiting_action = "None"
          /\ HasTrigger(ReqMsg) )
        => /\ CallStartsAndEnds
           /\ last'.status = "ok"
           /\ sessions'[ReqSid].awaiting_action = "get_name"
           /\ sessions'[ReqSid].user_data = PreSession(ReqSid).user_data
           /\ last'.response =
                 <<"Awesome! Let's get you started. What's your name?">>
           /\ last'.confidence = 90
           /\ last'.requires_action = "get_name"
      ]_vars

\* a second capture started, by the phrase in capitals, after a finished one
C7_Witness ==
    /\ last.status = "ok"
    /\ last.message = MsgPrice
    /\ last.response = NamePrompt
    /\ sessions[last.session_id].awaiting_action = "get_name"
    /\ DOMAIN sessions[last.session_id].user_data = {"name", "email"}

---------------------------------------------------------------------------
\* C2: whenever no call is in progress, every session's message_history is
\* twice as long as the number of /chat calls made on the session.
C2_HistoryIs2N ==
    running = Idle =>
        \A sid \in DOMAIN sessions :
            Len(sessions[sid].message_history) = 2 * stats[sid].calls

---------------------------------------------------------------------------
\* C8 as stated: while a request is inside get_ai_response, a further /chat
\* request on the same session can be run by the server.
C8_CanInterleave ==
    (running.pc = "get_ai_response" /\ nCalls < MaxCalls)
    => ENABLED (\E message \in Messages :
                   chat_endpoint(<<running.session_id>>, message))

\* C8 as the code has it: chat_endpoint is a coroutine that never awaits and
\* calls get_ai_response synchronously, so requests are serialised by the
\* event loop.  While a request is inside get_ai_response no /chat call
\* starts, and the sessions change only by that call's return, which appends
\* its assistant message to its own session.
C8_Serialized ==
    [][ running.pc = "get_ai_response"
        => /\ ~CallStarts
           /\ \/ sessions' = sessions
              \/ /\ CallEnds
                 /\ last'.status = "ok"
                 /\ last'.session_id = running.session_id
                 /\ sessions' =
                       [sessions EXCEPT ![running.session_id].message_history =
                           Append(@, [role |-> "assistant",
                                      content |-> last'.response])]
      ]_vars

\* a request inside get_ai_response, its user message stored and not yet
\* answered, at a moment when the call budget would still admit a request
C8_Witness ==
    /\ running.pc = "get_ai_response"
    /\ nCalls < MaxCalls
    /\ LET h == sessions[running.session_id].message_history
       IN  /\ h[Len(h)] = [role |-> "user", content |-> running.message]
           /\ Len(h) = 2 * stats[running.session_id].calls - 1

---------------------------------------------------------------------------
\* C9: a fallback call that finds no vector store ends by returning the
\* fixed "Knowledge base not found" text with confidence 0.0 and no
\* requires_action, without calling FAISS.load_local or rag_chain.invoke,
\* and with awaiting_action and user_data as they were.
C9_KbMissingShortCircuit ==
    [][ (running.pc = "get_ai_response" /\ ~kbBuilt /\ CallEnds)
        => /\ last'.status = "ok"
           /\ last'.response = KbMissingText
           /\ last'.confidence = 0
           /\ last'.requires_action = "None"
           /\ last'.called \cap {"FAISS.load_local", "rag_chain.invoke"} = {}
           /\ sessions'[running.session_id].awaiting_action
                 = sessions[running.session_id].awaiting_action
           /\ sessions'[running.session_id].user_data
                 = sessions[running.session_id].user_data
      ]_vars

---------------------------------------------------------------------------
\* C10: a call with an unseen or absent session_id adds exactly one session,
\* which the call finds with awaiting_action None, no history and no
\* user_data; a call with a known session_id adds none and finds the session
\* as it was left (its history kept as a prefix, its user_data keys kept,
\* its capture state continued); no step removes a session.
C10_GetOrCreate ==
    [][ /\ DOMAIN sessions \subseteq DOMAIN sessions'
        /\ ~CallStarts => DOMAIN sessions' = DOMAIN sessions
        /\ CallStarts =>
              LET sid == ReqSid
                  old == PreSession(sid)
                  new == sessions'[sid]
                  user == [role |-> "user", content |-> ReqMsg]
              IN  /\ DOMAIN sessions' = DOMAIN sessions \cup {sid}
                  /\ nUuid' # nUuid => sid \notin DOMAIN sessions
                  /\ sid \notin DOMAIN sessions =>
                        /\ new.message_history[1] = user
                        /\ Len(new.message_history) = IF CallEnds THEN 2 ELSE 1
                        /\ new.user_data = EmptyDict
                        /\ new.awaiting_action =
                              IF HasTrigger(ReqMsg) THEN "get_name" ELSE "None"
                  /\ sid \in DOMAIN sessions =>
                        /\ IsPrefix(Append(old.message_history, user),
                                    new.message_history)
                        /\ DOMAIN old.user_data \subseteq DOMAIN new.user_data
                        /\ old.awaiting_action = "get_name"
                              => new.awaiting_action = "get_email"
                        /\ old.awaiting_action = "get_email"
                              => new.awaiting_action \in {"get_email", "None"}
      ]_vars

\* a session made for an absent identifier beside a client-named session
\* that has been called again and kept its history
C10_Witness ==
    /\ DOMAIN sessions = {"s1", "uuid-1"}
    /\ stats["s1"].calls >= 2
    /\ Len(sessions["s1"].message_history) >= 3
    /\ Len(sessions["uuid-1"].message_history) >= 1

---------------------------------------------------------------------------
\* C11: a valid-email step ends the same way whatever becomes of the
\* notification (sent, failed with an exception, or skipped for want of
\* mail credentials): the call returns the confirmation text, the session
\* is left with the email stored, awaiting_action None and both messages
\* appended, and send_lead_email is called once, with no retry.
C11_NotificationSwallowed ==
    [][ ( /\ CallStarts
          /\ PreSession(ReqSid).awaiting_action = "get_email"
          /\ HasAt(ReqMsg) /\ HasDot(ReqMsg) )
        => LET old == PreSession(ReqSid)
               reply == <<"Perfect! We'll contact you at ">> \o ReqMsg
                           \o <<" within 24 hours! ", "U+1F389">>
           IN  /\ CallStartsAndEnds
               /\ last'.status = "ok"
               /\ last'.response = reply
               /\ sessions'[ReqSid] =
                     [message_history |->
                          old.message_history
                              \o << [role |-> "user", content |-> ReqMsg],
                                    [role |-> "assistant", content |-> reply] >>,
                      awaiting_action |-> "None",
                      user_data |->
                          [k \in DOMAIN old.user_data \cup {"email"} |->
                              IF k = "email" THEN ReqMsg ELSE old.user_data[k]]]
               /\ Len(notifications') = Len(notifications) + 1
               /\ notifications'[Len(notifications')].outcome
                     \in {"sent", "failed", "skipped"}
      ]_vars

\* a delivery that failed, behind a call that returned its confirmation
C11_Witness ==
    /\ Len(notifications) = 1
    /\ notifications[1].outcome = "failed"
    /\ last.status = "ok"
    /\ last.response = EmailAck(last.message)
    /\ sessions[last.session_id].awaiting_action = "None"

---------------------------------------------------------------------------
---------------------------------------------------------------------------
\* C13: no step changes or removes a stored message; every call, when it
\* ends, has extended its session's message_history by the user message
\* followed by an assistant message, the returned response text; so in
\* every history the roles alternate user, assistant, from user on.
C13_AppendOnlyAlternating ==
    [][ /\ \A sid \in DOMAIN sessions :
              IsPrefix(sessions[sid].message_history,
                       sessions'[sid].message_history)
        /\ \A sid \in DOMAIN sessions' :
              \A i \in 1..Len(sessions'[sid].message_history) :
                  sessions'[sid].message_history[i].role =
                      IF i % 2 = 1 THEN "user" ELSE "assistant"
        /\ CallEnds =>
              LET h == sessions'[last'.session_id].message_history
              IN  /\ Len(h) >= 2
                  /\ h[Len(h) - 1] = [role |-> "user", content |-> last'.message]
                  /\ h[Len(h)].role = "assistant"
                  /\ last'.status = "ok" => h[Len(h)].content = last'.response
      ]_vars

---------------------------------------------------------------------------
\* C14: a GET /health request changes no session, no call record and no
\* notification, and reports as sessions_active the number of sessions in
\* the store, however it is interleaved with /chat calls.
C14_HealthReadOnly ==
    [][ (nGets' = nGets + 1 /\ probe'.kind = "health")
        => /\ sessions' = sessions
           /\ UNCHANGED <<running, last, notifications, nCalls>>
           /\ probe'.sessions_active = Cardinality(DOMAIN sessions')
      ]_vars

\* a second health request, answered with both sessions counted, one of
\* them outside a capture
C14_Witness ==
    /\ probe.kind = "health"
    /\ nGets = 2
    /\ probe.sessions_active = 2
    /\ Cardinality(DOMAIN sessions) = 2
    /\ \E sid \in DOMAIN sessions : sessions[sid].awaiting_action = "None"

---------------------------------------------------------------------------
\* C15: a call enters get_ai_response having only appended its user
\* message; when get_ai_response raises, the call ends without a response,
\* get_ai_response is not called again, and the sessions stay as they were
\* at the entry: awaiting_action and user_data unchanged, the user message
\* the last entry of the history, no assistant message added.
C15_FaultPropagates ==
    [][ /\ (CallStarts /\ running' # Idle)
           => sessions'[ReqSid] =
                 [PreSession(ReqSid) EXCEPT !.message_history =
                     Append(@, [role |-> "user", content |-> ReqMsg])]
        /\ (CallEnds /\ last'.status = "fault")
           => /\ running.pc = "get_ai_response"
              /\ running' = Idle
              /\ last'.session_id = running.session_id
              /\ sessions' = sessions
              /\ nFallback' = nFallback
              /\ nCalls' = nCalls
              /\ LET h == sessions'[running.session_id].message_history
                 IN  h[Len(h)] = [role |-> "user", content |-> running.message]
      ]_vars

\* a call ended by an exception, with its user message left unanswered
C15_Witness ==
    /\ last.status = "fault"
    /\ running = Idle
    /\ LET h == sessions[last.session_id].message_history
       IN  h[Len(h)] = [role |-> "user", content |-> last.message]
    /\ sessions[last.session_id].awaiting_action = "None"
    /\ sessions[last.session_id].user_data = EmptyDict

---------------------------------------------------------------------------
\* C16: a GET /session/{id} request changes no session; for an identifier
\* not in the store it is answered 404 "Session not found", for a known one
\* with that session's state.
C16_SessionLookup ==
    [][ (nGets' = nGets + 1 /\ probe'.kind = "session")
        => /\ sessions' = sessions
           /\ IF probe'.session_id \in DOMAIN sessions
              THEN /\ probe'.response.status_code = 200
                   /\ probe'.response.body = sessions[probe'.session_id]
              ELSE /\ probe'.response.status_code = 404
                   /\ probe'.response.detail = "Session not found"
      ]_vars

---------------------------------------------------------------------------
\* C17: a session's awaiting_action changes only from None to get_name,
\* from get_name to get_email and from get_email to None; a call leaves its
\* session at None (from None), at get_email (from get_email) or moves it
\* along that cycle, so a call on a session at get_name always moves it to
\* get_email and a session at get_email leaves only for None.
C17_CaptureCycle ==
    [][ /\ \A sid \in DOMAIN sessions' :
              LET a == PreSession(sid).awaiting_action
                  b == sessions'[sid].awaiting_action
              IN  a # b => <<a, b>> \in { <<"None", "get_name">>,
                                          <<"get_name", "get_email">>,
                                          <<"get_email", "None">> }
        /\ CallStarts =>
              <<PreSession(ReqSid).awaiting_action,
                sessions'[ReqSid].awaiting_action>>
                  \in { <<"None", "None">>, <<"None", "get_name">>,
                        <<"get_name", "get_email">>,
                        <<"get_email", "get_email">>, <<"get_email", "None">> }
      ]_vars

\* a session that has gone once round the cycle, in three calls
C17_Witness ==
    \E sid \in DOMAIN sessions :
        /\ stats[sid].calls = 3
        /\ DOMAIN sessions[sid].user_data = {"name", "email"}
        /\ sessions[sid].awaiting_action = "None"

---------------------------------------------------------------------------
\* C18: when a call returns a response, its requires_action is the
\* awaiting_action the call leaves its session with (None for none).
C18_RequiresActionIsState ==
    [][ (CallEnds /\ last'.status = "ok")
        => last'.requires_action
             = sessions'[last'.session_id].awaiting_action
      ]_vars

\* an invalid email answered: get_email asked again, get_email kept
C18_Witness ==
    /\ last.status = "ok"
    /\ last.confidence = 50
    /\ last.requires_action = "get_email"
    /\ sessions[last.session_id].awaiting_action = "get_email"

---------------------------------------------------------------------------
\* C19: a session awaiting get_email has a name in user_data; and each call
\* of send_lead_email is given a user_data with a name, the text sent in
\* answer to the last name prompt, and an email, the text of the call's
\* message, and a message_history that ends with that user message, the
\* assistant's confirmation being appended after it.
C19_LeadIsComplete ==
    [][ /\ \A sid \in DOMAIN sessions' :
              sessions'[sid].awaiting_action = "get_email"
                  => "name" \in DOMAIN sessions'[sid].user_data
        /\ Len(notifications') # Len(notifications) =>
              LET rec == notifications'[Len(notifications')].args
                  h == rec.message_history
                  prompt == [role |-> "assistant",
                             content |-> <<"Awesome! Let's get you started. What's your name?">>]
                  asked == {i \in 1..Len(h) : h[i] = prompt}
                  k == CHOOSE i \in asked : \A j \in asked : j <= i
              IN  /\ DOMAIN rec.lead_data = {"name", "email"}
                  /\ rec.lead_data["email"] = last'.message
                  /\ h[Len(h)] = [role |-> "user", content |-> last'.message]
                  /\ asked # {}
                  /\ h[k + 1] = [role |-> "user",
                                 content |-> rec.lead_data["name"]]
                  /\ sessions'[last'.session_id].message_history =
                        Append(h, [role |-> "assistant",
                                   content |-> last'.response])
      ]_vars

\* a lead handed over with the name and the email of its capture round
C19_Witness ==
    /\ Len(notifications) = 1
    /\ notifications[1].args.lead_data["name"] = MsgCostAt
    /\ notifications[1].args.lead_data["email"] = MsgEmail
    /\ Len(notifications[1].args.message_history) = 5

---------------------------------------------------------------------------
\* C20: a step of a /chat call for one session identifier changes that
\* session only: every other session keeps its awaiting_action, user_data
\* and message_history, and no other session is created.
C20_SessionIsolation ==
    [][ LET target == IF CallStarts THEN {ReqSid}
                      ELSE IF CallEnds THEN {last'.session_id}
                      ELSE {}
        IN  /\ DOMAIN sessions' \subseteq DOMAIN sessions \cup target
            /\ \A sid \in DOMAIN sessions :
                  sid \notin target => sessions'[sid] = sessions[sid]
      ]_vars

\* a name step on one session beside another session it left alone
C20_Witness ==
    /\ DOMAIN sessions = {"s1", "uuid-1"}
    /\ last.status = "ok"
    /\ last.session_id = "s1"
    /\ last.requires_action = "get_email"
    /\ "name" \in DOMAIN sessions["s1"].user_data
    /\ sessions["uuid-1"].user_data = EmptyDict
    /\ Len(sessions["uuid-1"].message_history) >= 1

====
